---------------------------- MODULE Spec2Model ----------------------------
(***************************************************************************)
(* The three SQLite-backed CRUD services of the repository:                *)
(*   flask    src/src/web_dev/flask_app/app.py     (users)                 *)
(*   fastapi  src/src/web_dev/fastapi_app/app.py   (users)                 *)
(*   quotes   src/src/web_dev/quotes_api/app.py    (quotes and favorites)  *)
(*                                                                         *)
(* One run of the model is one deployment of one of the three services     *)
(* (app).  Request handlers run in worker processes/threads Procs; every   *)
(* handler is cut at its SQL statements: one action is one statement       *)
(* together with the Python code up to the next statement.  A DML          *)
(* statement and the conn.commit() that follows it form one step: between  *)
(* the two, SQLite holds the write lock and readers still see the old      *)
(* committed state, so no other connection can observe the gap.            *)
(*                                                                         *)
(* A column value or JSON value that may be NULL/None is a set with at     *)
(* most one element: {} is NULL, {v} is the value v.  A JSON payload is a  *)
(* function from the keys present in it to such values.                    *)
(***************************************************************************)
EXTENDS Integers, FiniteSets, Sequences, TLC

VARIABLES
    app,        \* which service this deployment runs
    users,      \* table users: set of rows
    userSeq,    \* sqlite_sequence entry of users (AUTOINCREMENT)
    quotes,     \* table quotes
    quoteSeq,   \* sqlite_sequence entry of quotes
    favorites,  \* table favorites
    favSeq,     \* sqlite_sequence entry of favorites
    pc,         \* per worker: the statement its handler executes next
    loc,        \* per worker: the handler's local variables
    out,        \* the response sent by the step just taken (NoResp: none)
    issued,     \* history: ids returned by successful Create requests
    deleted,    \* history: ids removed by successful Delete requests
    fresh,      \* history: records returned by Create, not updated/deleted since
    unclosed,   \* connections whose handler returned without conn.close()
    peer,       \* side-by-side run of the two user services: the users.db of
                \* the service not running, the request and the answers
    posts,      \* table posts of the standalone SQLite module
    postSeq     \* sqlite_sequence entry of posts

vars == <<app, users, userSeq, quotes, quoteSeq, favorites, favSeq,
          pc, loc, out, issued, deleted, fresh, unclosed, peer, posts, postSeq>>

dbUsers  == <<users, userSeq>>
dbQuotes == <<quotes, quoteSeq, favorites, favSeq>>
dbPosts  == <<posts, postSeq>>
history  == <<issued, deleted, fresh>>

-----------------------------------------------------------------------------
(* Bounds of the model *)

NumProcs == 2
MaxUserId == 2
MaxQuoteId == 1
MaxFavId == 2
MaxUnclosed == 1

Procs == 1..NumProcs

-----------------------------------------------------------------------------
(* Values *)

Null == {}
Some(v) == {v}
TheVal(o) == CHOOSE v \in o : TRUE

Empty == [k \in {} |-> {}]

Max(a, b) == IF a >= b THEN a ELSE b

MaxRowid(rows) == IF rows = {} THEN 0
                  ELSE CHOOSE m \in {r.id : r \in rows} : \A r \in rows : r.id <= m

\* cursor.fetchone(): the first row of a result set, or None
FetchOne(rs) == IF rs = {} THEN Null ELSE Some(CHOOSE r \in rs : TRUE)

\* HTTP status codes
HTTP_200_OK == 200
HTTP_201_CREATED == 201
HTTP_204_NO_CONTENT == 204
HTTP_400_BAD_REQUEST == 400
HTTP_404_NOT_FOUND == 404
HTTP_409_CONFLICT == 409
HTTP_422_UNPROCESSABLE_ENTITY == 422
HTTP_500_INTERNAL_SERVER_ERROR == 500

\* cursor.rowcount when the cursor's last statement was not an INSERT, UPDATE
\* or DELETE
NoRowcount == -1

\* a handler's locals: path id, JSON body, user_id parameter, row it has
\* read, cursor.rowcount
NoLoc == [id |-> 0, data |-> Empty, uid |-> Null, row |-> Null,
          rowcount |-> NoRowcount]

\* a response: status and body, with the request it answers (req), the id it
\* names, and the exception class the handler caught on the way (exc)
NoResp == [op |-> "none", status |-> 0, id |-> 0, body |-> {}, exc |-> "none",
           req |-> NoLoc]

Respond(p, op, req, status, id, body, exc) ==
    /\ out' = [op |-> op, status |-> status, id |-> id, body |-> body,
               exc |-> exc, req |-> req]
    /\ pc' = [pc EXCEPT ![p] = "idle"]
    /\ loc' = [loc EXCEPT ![p] = NoLoc]

\* the handler answers on a path that has called conn.close(), or before it
\* has opened a connection
Reply(p, op, req, status, id, body, exc) ==
    /\ Respond(p, op, req, status, id, body, exc)
    /\ unclosed' = unclosed

\* the handler answers from an except clause: the statement that raised sits
\* between get_db_connection() and conn.close(), and no except clause closes
\* the connection
Raise(p, op, req, status, id, body, exc) ==
    /\ unclosed < MaxUnclosed
    /\ Respond(p, op, req, status, id, body, exc)
    /\ unclosed' = unclosed + 1

Goto(p, label, l) ==
    /\ pc' = [pc EXCEPT ![p] = label]
    /\ loc' = [loc EXCEPT ![p] = l]
    /\ out' = NoResp
    /\ unclosed' = unclosed

\* no side-by-side run: the other service's users.db as init_db() leaves it
NoPeer == [users |-> {}, userSeq |-> 0, op |-> "none", id |-> 0, data |-> Empty,
           flask |-> 0, fastapi |-> 0]

Req(id, data, uid) == [NoLoc EXCEPT !.id = id, !.data = data, !.uid = uid]

-----------------------------------------------------------------------------
(* Request inputs *)

UserIdArgs == 1..MaxUserId

CreateUserPayloads ==
    { [username |-> Some("alice"), email |-> Some("a@x.io"), age |-> Some(30)],
      [username |-> Some("bob"), email |-> Some("a@x.io")],
      [username |-> Some("alice")],
      [email |-> Some("a@x.io")],
      [username |-> Some("bob"), email |-> Null],
      [username |-> Some("alice"), email |-> Some("a@x.io"), age |-> Some(150)] }

UpdateUserPayloads ==
    { Empty,
      [username |-> Some("bob")],
      [username |-> Some("bob"), email |-> Some("b@x.io")],
      [email |-> Null],
      [age |-> Null],
      [age |-> Some(150)] }

-----------------------------------------------------------------------------
(* The store: table users (both user services) *)

\* id INTEGER PRIMARY KEY AUTOINCREMENT: one more than the largest rowid ever used
AutoIncrementNoKeyword(rows, seq) == MaxRowid(rows) + 1
AutoIncrement(rows, seq) == Max(seq, MaxRowid(rows)) + 1

\* username TEXT NOT NULL UNIQUE
UsernameTakenNoUnique(rows, username) == FALSE
UsernameTaken(rows, username) == \E r \in rows : r.username = username

\* INSERT INTO users (username, email, age) VALUES (?, ?, ?): does it raise
\* sqlite3.IntegrityError (NOT NULL username, UNIQUE username, NOT NULL email)
InsertUserIntegrityError(rows, username, email) ==
    \/ username = Null
    \/ email = Null
    \/ UsernameTaken(rows, username)

\* created_at TIMESTAMP DEFAULT CURRENT_TIMESTAMP: the clock at the INSERT;
\* the model's clock counts the INSERTs into the table
CurrentTimestamp(rows, seq) == Max(seq, MaxRowid(rows)) + 1

InsertedUser(rows, seq, username, email, age) ==
    [id |-> AutoIncrement(rows, seq), username |-> username, email |-> email,
     age |-> age, created_at |-> CurrentTimestamp(rows, seq)]

SelectById(rows, id) == {r \in rows : r.id = id}

\* UPDATE users SET <the supplied columns> WHERE id = ?
UpdatedUserAllColumns(r, data) ==
    [r EXCEPT !.email = IF "email" \in DOMAIN data THEN data.email ELSE @,
              !.age   = IF "age" \in DOMAIN data THEN data.age ELSE Null]
UpdatedUser(r, data) ==
    [r EXCEPT !.email = IF "email" \in DOMAIN data THEN data.email ELSE @,
              !.age   = IF "age" \in DOMAIN data THEN data.age ELSE @]

\* the UPDATE raises IntegrityError: email TEXT NOT NULL, checked on the rows
\* the WHERE clause matches
UpdateUserIntegrityError(rows, id, data) ==
    /\ SelectById(rows, id) # {}
    /\ "email" \in DOMAIN data /\ data.email = Null

\* cursor.rowcount after UPDATE/DELETE ... WHERE id = ?
RowcountById(rows, id) == Cardinality(SelectById(rows, id))

UpdateUsersUpsert(rows, id, data) ==
    IF SelectById(rows, id) = {}
    THEN rows \cup {[id |-> id, username |-> Null,
                     email |-> IF "email" \in DOMAIN data THEN data.email ELSE Null,
                     age |-> IF "age" \in DOMAIN data THEN data.age ELSE Null,
                     created_at |-> 0]}
    ELSE {IF r.id = id THEN UpdatedUser(r, data) ELSE r : r \in rows}
UpdateUsers(rows, id, data) ==
    {IF r.id = id THEN UpdatedUser(r, data) ELSE r : r \in rows}

\* DELETE FROM <table> WHERE id = ? followed by conn.commit()
DeleteByIdUncommitted(rows, id) == rows
DeleteById(rows, id) == {r \in rows : r.id # id}

\* get_user: SELECT * FROM users WHERE id = ?; user = cursor.fetchone()
FetchUserNoWhere(rows, user_id) == FetchOne(rows)
FetchUser(rows, user_id) == FetchOne(SelectById(rows, user_id))

-----------------------------------------------------------------------------
(* Flask user service *)

\* data.get('age')
DataGet(data, key) == IF key \in DOMAIN data THEN data[key] ELSE Null

\* all(key in data for key in ('username', 'email'))
FlaskRequiredPresentUsernameOnly(data) == "username" \in DOMAIN data
FlaskRequiredPresent(data) == {"username", "email"} \subseteq DOMAIN data

Flask_create_user(p) ==
    /\ app = "flask" /\ pc[p] = "idle"
    /\ \E data \in CreateUserPayloads :
        LET req == Req(0, data, Null) IN
        IF ~FlaskRequiredPresent(data)
        THEN /\ Reply(p, "create", req, HTTP_400_BAD_REQUEST, 0, {}, "none")
             /\ UNCHANGED <<dbUsers, history>>
        ELSE IF ~({"username", "email"} \subseteq DOMAIN data)
        THEN \* data['username'] or data['email'] raises KeyError
             /\ Raise(p, "create", req, HTTP_500_INTERNAL_SERVER_ERROR, 0, {}, "KeyError")
             /\ UNCHANGED <<dbUsers, history>>
        ELSE IF InsertUserIntegrityError(users, data.username, data.email)
        THEN /\ Raise(p, "create", req, HTTP_409_CONFLICT, 0, {}, "IntegrityError")
             /\ UNCHANGED <<dbUsers, history>>
        ELSE LET row == InsertedUser(users, userSeq, data.username, data.email,
                                     DataGet(data, "age"))
             IN /\ row.id <= MaxUserId
                /\ users' = users \cup {row}
                /\ userSeq' = row.id
                /\ issued' = issued \cup {row.id}
                /\ Reply(p, "create", req, HTTP_201_CREATED, row.id, {}, "none")
                /\ UNCHANGED <<deleted, fresh>>
    /\ UNCHANGED <<app, peer, dbPosts, dbQuotes>>

Flask_get_user(p) ==
    /\ app = "flask" /\ pc[p] = "idle"
    /\ \E user_id \in UserIdArgs :
        LET user == FetchUser(users, user_id)
            req == Req(user_id, Empty, Null)
        IN IF user # Null
           THEN Reply(p, "get", req, HTTP_200_OK, user_id, user, "none")
           ELSE Reply(p, "get", req, HTTP_404_NOT_FOUND, 0, {}, "none")
    /\ UNCHANGED <<app, peer, dbPosts, dbUsers, dbQuotes, history>>

\* the keys of the payload the handler turns into "column = ?" fragments
FlaskUpdateFieldsAnyKey(data) == DOMAIN data
FlaskUpdateFields(data) == DOMAIN data \cap {"email", "age"}

Flask_update_user(p) ==
    /\ app = "flask" /\ pc[p] = "idle"
    /\ \E user_id \in UserIdArgs, data \in UpdateUserPayloads :
        LET req == Req(user_id, data, Null) IN
        IF data = Empty \/ FlaskUpdateFields(data) = {}
        THEN Reply(p, "update", req, HTTP_400_BAD_REQUEST, 0, {}, "none")
        ELSE IF SelectById(users, user_id) = {}
        THEN Reply(p, "update", req, HTTP_404_NOT_FOUND, 0, {}, "none")
        ELSE Goto(p, "flask_update", req)
    /\ UNCHANGED <<app, peer, dbPosts, dbUsers, dbQuotes, history>>

Flask_update_user_execute(p) ==
    /\ app = "flask" /\ pc[p] = "flask_update"
    /\ LET user_id == loc[p].id
           data == loc[p].data
           done == [loc[p] EXCEPT !.rowcount = RowcountById(users, user_id)]
       IN IF UpdateUserIntegrityError(users, user_id, data)
          THEN /\ Raise(p, "update", loc[p], HTTP_500_INTERNAL_SERVER_ERROR, 0, {},
                        "IntegrityError")
               /\ UNCHANGED <<dbUsers, history>>
          ELSE /\ users' = UpdateUsers(users, user_id, data)
               /\ fresh' = {r \in fresh : r.id # user_id}
               /\ Reply(p, "update", done, HTTP_200_OK, user_id, {}, "none")
               /\ UNCHANGED <<userSeq, issued, deleted>>
    /\ UNCHANGED <<app, peer, dbPosts, dbQuotes>>

Flask_delete_user(p) ==
    /\ app = "flask" /\ pc[p] = "idle"
    /\ \E user_id \in UserIdArgs :
        LET req == Req(user_id, Empty, Null) IN
        IF SelectById(users, user_id) = {}
        THEN Reply(p, "delete", req, HTTP_404_NOT_FOUND, 0, {}, "none")
        ELSE Goto(p, "flask_delete", req)
    /\ UNCHANGED <<app, peer, dbPosts, dbUsers, dbQuotes, history>>

Flask_delete_user_execute(p) ==
    /\ app = "flask" /\ pc[p] = "flask_delete"
    /\ users' = DeleteById(users, loc[p].id)
    /\ deleted' = deleted \cup {loc[p].id}
    /\ fresh' = {r \in fresh : r.id # loc[p].id}
    /\ Reply(p, "delete", loc[p], HTTP_200_OK, loc[p].id, {}, "none")
    /\ UNCHANGED <<app, peer, dbPosts, userSeq, dbQuotes, issued>>

-----------------------------------------------------------------------------
(* FastAPI user service *)

WellFormedEmails == {"a@x.io", "b@x.io"}

UsernameMinLength == 3
UsernameMaxLength == 50
AgeMin == 0
AgeMax == 120

\* age: Optional[int] = Field(None, ge=0, le=120)
AgeFieldValid(data) ==
    "age" \in DOMAIN data =>
        data.age = Null \/ (TheVal(data.age) >= AgeMin /\ TheVal(data.age) <= AgeMax)

\* class UserBase: username and email required, age optional
UserCreateValid(data) ==
    /\ "username" \in DOMAIN data /\ data.username # Null
    /\ Len(TheVal(data.username)) >= UsernameMinLength
    /\ Len(TheVal(data.username)) <= UsernameMaxLength
    /\ "email" \in DOMAIN data /\ data.email # Null
    /\ TheVal(data.email) \in WellFormedEmails
    /\ AgeFieldValid(data)

\* class UserUpdate: email and age both optional
UserUpdateValid(data) ==
    /\ "email" \in DOMAIN data =>
          data.email = Null \/ TheVal(data.email) \in WellFormedEmails
    /\ AgeFieldValid(data)

\* user_update.dict(exclude_unset=True): the model's fields the body sets
UserUpdateDict(data) == [k \in DOMAIN data \cap {"email", "age"} |-> data[k]]

Fastapi_create_user(p) ==
    /\ app = "fastapi" /\ pc[p] = "idle"
    /\ \E data \in CreateUserPayloads :
        LET req == Req(0, data, Null) IN
        IF ~UserCreateValid(data)
        THEN /\ Reply(p, "create", req, HTTP_422_UNPROCESSABLE_ENTITY, 0, {},
                      "ValidationError")
             /\ UNCHANGED <<dbUsers, history>>
        ELSE IF InsertUserIntegrityError(users, data.username, data.email)
        THEN /\ Raise(p, "create", req, HTTP_409_CONFLICT, 0, {}, "IntegrityError")
             /\ UNCHANGED <<dbUsers, history>>
        ELSE LET row == InsertedUser(users, userSeq, data.username, data.email,
                                     DataGet(data, "age"))
             IN /\ row.id <= MaxUserId
                /\ users' = users \cup {row}
                /\ userSeq' = row.id
                /\ Goto(p, "fastapi_create_select", [req EXCEPT !.id = row.id])
                /\ UNCHANGED history
    /\ UNCHANGED <<app, peer, dbPosts, dbQuotes>>

\* cursor.execute("SELECT * FROM users WHERE id = ?", (user_id,));
\* new_user = dict(cursor.fetchone())
Fastapi_create_user_select(p) ==
    /\ app = "fastapi" /\ pc[p] = "fastapi_create_select"
    /\ LET new_user == FetchOne(SelectById(users, loc[p].id))
       IN IF new_user = Null
          THEN /\ Raise(p, "create", loc[p], HTTP_500_INTERNAL_SERVER_ERROR, 0, {},
                        "TypeError")
               /\ UNCHANGED history
          ELSE /\ Reply(p, "create", loc[p], HTTP_201_CREATED, loc[p].id, new_user,
                        "none")
               /\ issued' = issued \cup {loc[p].id}
               /\ fresh' = {r \in fresh : r.id # loc[p].id} \cup new_user
               /\ UNCHANGED deleted
    /\ UNCHANGED <<app, peer, dbPosts, dbUsers, dbQuotes>>

Fastapi_get_user(p) ==
    /\ app = "fastapi" /\ pc[p] = "idle"
    /\ \E user_id \in UserIdArgs :
        LET user == FetchUser(users, user_id)
            req == Req(user_id, Empty, Null)
        IN IF user = Null
           THEN Reply(p, "get", req, HTTP_404_NOT_FOUND, 0, {}, "none")
           ELSE Reply(p, "get", req, HTTP_200_OK, user_id, user, "none")
    /\ UNCHANGED <<app, peer, dbPosts, dbUsers, dbQuotes, history>>

Fastapi_update_user(p) ==
    /\ app = "fastapi" /\ pc[p] = "idle"
    /\ \E user_id \in UserIdArgs, data \in UpdateUserPayloads :
        LET req == Req(user_id, data, Null)
            update_data == UserUpdateDict(data)
        IN IF ~UserUpdateValid(data)
           THEN Reply(p, "update", req, HTTP_422_UNPROCESSABLE_ENTITY, 0, {},
                      "ValidationError")
           ELSE IF update_data = Empty
           THEN Reply(p, "update", req, HTTP_400_BAD_REQUEST, 0, {}, "none")
           ELSE IF SelectById(users, user_id) = {}
           THEN Reply(p, "update", req, HTTP_404_NOT_FOUND, 0, {}, "none")
           ELSE Goto(p, "fastapi_update", req)
    /\ UNCHANGED <<app, peer, dbPosts, dbUsers, dbQuotes, history>>

Fastapi_update_user_execute(p) ==
    /\ app = "fastapi" /\ pc[p] = "fastapi_update"
    /\ LET user_id == loc[p].id
           update_data == UserUpdateDict(loc[p].data)
           done == [loc[p] EXCEPT !.rowcount = RowcountById(users, user_id)]
       IN IF UpdateUserIntegrityError(users, user_id, update_data)
          THEN /\ Raise(p, "update", loc[p], HTTP_500_INTERNAL_SERVER_ERROR, 0, {},
                        "IntegrityError")
               /\ UNCHANGED <<dbUsers, history>>
          ELSE /\ users' = UpdateUsers(users, user_id, update_data)
               /\ fresh' = {r \in fresh : r.id # user_id}
               /\ Goto(p, "fastapi_update_select", done)
               /\ UNCHANGED <<userSeq, issued, deleted>>
    /\ UNCHANGED <<app, peer, dbPosts, dbQuotes>>

\* updated_user = dict(cursor.fetchone())
Fastapi_update_user_select(p) ==
    /\ app = "fastapi" /\ pc[p] = "fastapi_update_select"
    /\ LET updated_user == FetchOne(SelectById(users, loc[p].id))
           req == [loc[p] EXCEPT !.rowcount = NoRowcount]
       IN IF updated_user = Null
          THEN Raise(p, "update", req, HTTP_500_INTERNAL_SERVER_ERROR, 0, {},
                     "TypeError")
          ELSE Reply(p, "update", req, HTTP_200_OK, loc[p].id, updated_user, "none")
    /\ UNCHANGED <<app, peer, dbPosts, dbUsers, dbQuotes, history>>

Fastapi_delete_user(p) ==
    /\ app = "fastapi" /\ pc[p] = "idle"
    /\ \E user_id \in UserIdArgs :
        LET req == Req(user_id, Empty, Null) IN
        IF SelectById(users, user_id) = {}
        THEN Reply(p, "delete", req, HTTP_404_NOT_FOUND, 0, {}, "none")
        ELSE Goto(p, "fastapi_delete", req)
    /\ UNCHANGED <<app, peer, dbPosts, dbUsers, dbQuotes, history>>

Fastapi_delete_user_execute(p) ==
    /\ app = "fastapi" /\ pc[p] = "fastapi_delete"
    /\ users' = DeleteById(users, loc[p].id)
    /\ deleted' = deleted \cup {loc[p].id}
    /\ fresh' = {r \in fresh : r.id # loc[p].id}
    /\ Reply(p, "delete", loc[p], HTTP_204_NO_CONTENT, loc[p].id, {}, "none")
    /\ UNCHANGED <<app, peer, dbPosts, userSeq, dbQuotes, issued>>

-----------------------------------------------------------------------------
(* Quotes service: inputs *)

QuoteIdArgs == 1..MaxQuoteId

\* user_id: Optional[str] = None (query parameter)
QueryUserIds == {Null, Some("u1"), Some("")}

\* user_id: str (required; any string, the empty one included)
FavoriteUserIds == {"u1", ""}

CreateQuotePayloads ==
    { [text |-> Some("t1"), author |-> Some("a1"), category |-> Some("c1")],
      [text |-> Some("t1"), author |-> Some("a1")],
      [text |-> Some(""), author |-> Some("a1")],
      [text |-> Some("t1")],
      [author |-> Some("a1")] }

\* bodies of POST /api/quotes/batch: no item, one item, two items, and two items
\* of which the second has an empty text
QuoteBatches ==
    { <<>>,
      << [text |-> Some("t1"), author |-> Some("a1")] >>,
      << [text |-> Some("t1"), author |-> Some("a1")],
         [text |-> Some("t1"), author |-> Some("a1"), category |-> Some("c1")] >>,
      << [text |-> Some("t1"), author |-> Some("a1")],
         [text |-> Some(""), author |-> Some("a1")] >> }

UpdateQuotePayloads ==
    { Empty,
      [rating |-> Some("5")],
      [id |-> Some(2), category |-> Some("c2")],
      [text |-> Null] }

-----------------------------------------------------------------------------
(* The store: tables quotes and favorites *)

\* get_db_connection() issues no "PRAGMA foreign_keys = ON": SQLite leaves
\* foreign-key enforcement off on such a connection
ForeignKeysEnabled == FALSE

InsertedQuote(rows, seq, data) ==
    [id |-> AutoIncrement(rows, seq), text |-> data.text, author |-> data.author,
     source |-> DataGet(data, "source"), category |-> DataGet(data, "category"),
     created_at |-> CurrentTimestamp(rows, seq)]

\* UPDATE quotes SET <field = ? for field in update_data> WHERE id = ?
UpdatedQuote(r, data) ==
    [k \in DOMAIN r |-> IF k \in DOMAIN data THEN data[k] ELSE r[k]]

UpdateQuotes(rows, id, data) ==
    {IF r.id = id THEN UpdatedQuote(r, data) ELSE r : r \in rows}

\* the UPDATE raises IntegrityError: text TEXT NOT NULL, author TEXT NOT NULL,
\* checked on the rows the WHERE clause matches
UpdateQuoteNoNotNull(rows, id, data) == FALSE
UpdateQuoteIntegrityError(rows, id, data) ==
    /\ SelectById(rows, id) # {}
    /\ \E k \in {"text", "author"} : k \in DOMAIN data /\ data[k] = Null

\* SELECT 1 FROM quotes WHERE id = ?  (fetchone() is not None)
QuoteExistsAlways(rows, id) == TRUE
QuoteExists(rows, id) == SelectById(rows, id) # {}

\* UNIQUE(quote_id, user_id)
FavoriteTakenNoUnique(favs, quote_id, user_id) == FALSE
FavoriteTaken(favs, quote_id, user_id) ==
    \E f \in favs : f.quote_id = quote_id /\ f.user_id = user_id

\* INSERT INTO favorites (quote_id, user_id) VALUES (?, ?) raises IntegrityError
InsertFavoriteIntegrityError(favs, qrows, quote_id, user_id) ==
    \/ FavoriteTaken(favs, quote_id, user_id)
    \/ ForeignKeysEnabled /\ SelectById(qrows, quote_id) = {}

\* SELECT 1 FROM favorites WHERE quote_id = ? AND user_id = ?
SelectFavorite(favs, quote_id, user_id) ==
    {f \in favs : f.quote_id = quote_id /\ f.user_id = user_id}

\* DELETE FROM favorites WHERE quote_id = ? AND user_id = ?: the rows left
DeleteFavoriteByQuote(favs, quote_id, user_id) == {f \in favs : f.quote_id # quote_id}
DeleteFavorite(favs, quote_id, user_id) ==
    {f \in favs : ~(f.quote_id = quote_id /\ f.user_id = user_id)}

\* DELETE FROM quotes WHERE id = ?: the favorites left, by
\* FOREIGN KEY (quote_id) REFERENCES quotes (id) ON DELETE CASCADE
FavoritesAfterQuoteDelete(favs, quote_id) ==
    IF ForeignKeysEnabled THEN {f \in favs : f.quote_id # quote_id} ELSE favs

\* SELECT q.* FROM quotes q JOIN favorites f ON q.id = f.quote_id WHERE f.user_id = ?
FavoriteJoinQuoteIdsOnly(qrows, favs, user_id) ==
    {[id |-> f.quote_id, text |-> Null, author |-> Null, source |-> Null,
      category |-> Null, created_at |-> 0] : f \in {g \in favs : g.user_id = user_id}}
FavoriteJoin(qrows, favs, user_id) ==
    {q \in qrows : \E f \in favs : f.quote_id = q.id /\ f.user_id = user_id}

\* "if user_id:" -- None and the empty string are both false
Truthy(uid) == uid # Null /\ TheVal(uid) # ""

\* result["is_favorite"] = ...
WithFavorite(row, flag) ==
    [id |-> row.id, text |-> row.text, author |-> row.author, source |-> row.source,
     category |-> row.category, created_at |-> row.created_at,
     is_favorite |-> flag]

-----------------------------------------------------------------------------
(* Quotes service: handlers *)

TextMinLength == 1

\* class QuoteBase: text (min_length=1) and author required
QuoteCreateValid(data) ==
    /\ "text" \in DOMAIN data /\ data.text # Null
    /\ Len(TheVal(data.text)) >= TextMinLength
    /\ "author" \in DOMAIN data /\ data.author # Null

\* quote_update.dict(exclude_unset=True)
QuoteUpdateDict(data) ==
    [k \in DOMAIN data \cap {"text", "author", "source", "category"} |-> data[k]]

create_quote(p) ==
    /\ app = "quotes" /\ pc[p] = "idle"
    /\ \E data \in CreateQuotePayloads :
        LET req == Req(0, data, Null) IN
        IF ~QuoteCreateValid(data)
        THEN /\ Reply(p, "create", req, HTTP_422_UNPROCESSABLE_ENTITY, 0, {},
                      "ValidationError")
             /\ UNCHANGED <<dbQuotes, history>>
        ELSE LET row == InsertedQuote(quotes, quoteSeq, data)
             IN /\ row.id <= MaxQuoteId
                /\ quotes' = quotes \cup {row}
                /\ quoteSeq' = row.id
                /\ Goto(p, "create_quote_select", [req EXCEPT !.id = row.id])
                /\ UNCHANGED <<favorites, favSeq, history>>
    /\ UNCHANGED <<app, peer, dbPosts, dbUsers>>

create_quote_select(p) ==
    /\ app = "quotes" /\ pc[p] = "create_quote_select"
    /\ LET row == FetchOne(SelectById(quotes, loc[p].id))
       IN IF row = Null
          THEN /\ Raise(p, "create", loc[p], HTTP_500_INTERNAL_SERVER_ERROR, 0, {},
                        "TypeError")
               /\ UNCHANGED history
          ELSE LET new_quote == WithFavorite(TheVal(row), FALSE)
               IN /\ Reply(p, "create", loc[p], HTTP_201_CREATED, loc[p].id,
                           {new_quote}, "none")
                  /\ issued' = issued \cup {loc[p].id}
                  /\ fresh' = {r \in fresh : r.id # loc[p].id} \cup {new_quote}
                  /\ UNCHANGED deleted
    /\ UNCHANGED <<app, peer, dbPosts, dbUsers, dbQuotes>>

RECURSIVE InsertedQuotes(_, _, _)
\* the loop of create_quotes_batch: one INSERT per item, all of them in the
\* transaction the first INSERT opens
InsertedQuotes(rows, seq, batch) ==
    IF batch = <<>>
    THEN {}
    ELSE LET row == InsertedQuote(rows, seq, Head(batch))
         IN {row} \cup InsertedQuotes(rows \cup {row}, row.id, Tail(batch))

\* conn.commit() once, after the loop
BatchCommitted(rows, inserted) == rows \cup inserted

\* POST /api/quotes/batch: the body is validated as List[QuoteCreate] before the
\* handler runs; the handler's transaction is invisible to the other
\* connections until its one commit, and every re-read inside it finds the row
\* just inserted
create_quotes_batch(p) ==
    /\ app = "quotes" /\ pc[p] = "idle"
    /\ \E batch \in QuoteBatches :
        LET req == Req(0, batch, Null) IN
        IF \E i \in DOMAIN batch : ~QuoteCreateValid(batch[i])
        THEN /\ Reply(p, "create_batch", req, HTTP_422_UNPROCESSABLE_ENTITY, 0, {},
                      "ValidationError")
             /\ UNCHANGED <<dbQuotes, history>>
        ELSE LET inserted == InsertedQuotes(quotes, quoteSeq, batch)
                 created_quotes == {WithFavorite(r, FALSE) : r \in inserted}
             IN /\ \A r \in inserted : r.id <= MaxQuoteId
                /\ quotes' = BatchCommitted(quotes, inserted)
                /\ quoteSeq' = Max(quoteSeq, MaxRowid(inserted))
                /\ Reply(p, "create_batch", req, HTTP_201_CREATED, 0,
                         created_quotes, "none")
                /\ issued' = issued \cup {r.id : r \in inserted}
                /\ fresh' = {r \in fresh : \A n \in inserted : r.id # n.id}
                                \cup created_quotes
                /\ UNCHANGED <<favorites, favSeq, deleted>>
    /\ UNCHANGED <<app, peer, dbPosts, dbUsers>>

get_quote(p) ==
    /\ app = "quotes" /\ pc[p] = "idle"
    /\ \E quote_id \in QuoteIdArgs, user_id \in QueryUserIds :
        LET quote == FetchOne(SelectById(quotes, quote_id))
            req == Req(quote_id, Empty, user_id)
        IN IF quote = Null
           THEN Reply(p, "get", req, HTTP_404_NOT_FOUND, 0, {}, "none")
           ELSE IF Truthy(user_id)
           THEN Goto(p, "get_quote_favorite", [req EXCEPT !.row = quote])
           ELSE Reply(p, "get", req, HTTP_200_OK, quote_id,
                      {WithFavorite(TheVal(quote), FALSE)}, "none")
    /\ UNCHANGED <<app, peer, dbPosts, dbUsers, dbQuotes, history>>

get_quote_favorite(p) ==
    /\ app = "quotes" /\ pc[p] = "get_quote_favorite"
    /\ LET is_favorite == SelectFavorite(favorites, loc[p].id, TheVal(loc[p].uid)) # {}
       IN Reply(p, "get", [loc[p] EXCEPT !.row = Null], HTTP_200_OK, loc[p].id,
                {WithFavorite(TheVal(loc[p].row), is_favorite)}, "none")
    /\ UNCHANGED <<app, peer, dbPosts, dbUsers, dbQuotes, history>>

\* SELECT quote_id FROM favorites WHERE user_id = ?
FavoriteQuoteIds(favs, user_id) == {f.quote_id : f \in {g \in favs : g.user_id = user_id}}

get_all_quotes(p) ==
    /\ app = "quotes" /\ pc[p] = "idle"
    /\ \E user_id \in QueryUserIds :
        LET req == Req(0, Empty, user_id)
        IN IF Truthy(user_id)
           THEN Goto(p, "get_all_quotes_favorites", [req EXCEPT !.row = quotes])
           ELSE Reply(p, "get_all", req, HTTP_200_OK, 0,
                      {WithFavorite(q, FALSE) : q \in quotes}, "none")
    /\ UNCHANGED <<app, peer, dbPosts, dbUsers, dbQuotes, history>>

get_all_quotes_favorites(p) ==
    /\ app = "quotes" /\ pc[p] = "get_all_quotes_favorites"
    /\ LET favorite_quote_ids == FavoriteQuoteIds(favorites, TheVal(loc[p].uid))
       IN Reply(p, "get_all", [loc[p] EXCEPT !.row = Null], HTTP_200_OK, 0,
                {WithFavorite(q, q.id \in favorite_quote_ids) : q \in loc[p].row},
                "none")
    /\ UNCHANGED <<app, peer, dbPosts, dbUsers, dbQuotes, history>>

update_quote(p) ==
    /\ app = "quotes" /\ pc[p] = "idle"
    /\ \E quote_id \in QuoteIdArgs, data \in UpdateQuotePayloads,
          user_id \in QueryUserIds :
        LET req == Req(quote_id, data, user_id)
            update_data == QuoteUpdateDict(data)
        IN IF update_data = Empty
           THEN Reply(p, "update", req, HTTP_400_BAD_REQUEST, 0, {}, "none")
           ELSE IF ~QuoteExists(quotes, quote_id)
           THEN Reply(p, "update", req, HTTP_404_NOT_FOUND, 0, {}, "none")
           ELSE Goto(p, "update_quote_execute", req)
    /\ UNCHANGED <<app, peer, dbPosts, dbUsers, dbQuotes, history>>

update_quote_execute(p) ==
    /\ app = "quotes" /\ pc[p] = "update_quote_execute"
    /\ LET update_data == QuoteUpdateDict(loc[p].data)
           done == [loc[p] EXCEPT !.rowcount = RowcountById(quotes, loc[p].id)]
       IN IF UpdateQuoteIntegrityError(quotes, loc[p].id, update_data)
          THEN /\ Raise(p, "update", loc[p], HTTP_500_INTERNAL_SERVER_ERROR, 0, {},
                        "IntegrityError")
               /\ UNCHANGED <<dbQuotes, history>>
          ELSE /\ quotes' = UpdateQuotes(quotes, loc[p].id, update_data)
               /\ fresh' = {r \in fresh : r.id # loc[p].id}
               /\ Goto(p, "update_quote_select", done)
               /\ UNCHANGED <<quoteSeq, favorites, favSeq, issued, deleted>>
    /\ UNCHANGED <<app, peer, dbPosts, dbUsers>>

update_quote_select(p) ==
    /\ app = "quotes" /\ pc[p] = "update_quote_select"
    /\ LET row == FetchOne(SelectById(quotes, loc[p].id))
           req == [loc[p] EXCEPT !.rowcount = NoRowcount]
       IN IF row = Null
          THEN Raise(p, "update", req, HTTP_500_INTERNAL_SERVER_ERROR, 0, {},
                     "TypeError")
          ELSE IF Truthy(loc[p].uid)
          THEN Goto(p, "update_quote_favorite", [req EXCEPT !.row = row])
          ELSE Reply(p, "update", req, HTTP_200_OK, loc[p].id,
                     {WithFavorite(TheVal(row), FALSE)}, "none")
    /\ UNCHANGED <<app, peer, dbPosts, dbUsers, dbQuotes, history>>

update_quote_favorite(p) ==
    /\ app = "quotes" /\ pc[p] = "update_quote_favorite"
    /\ LET is_favorite == SelectFavorite(favorites, loc[p].id, TheVal(loc[p].uid)) # {}
       IN Reply(p, "update", [loc[p] EXCEPT !.row = Null], HTTP_200_OK, loc[p].id,
                {WithFavorite(TheVal(loc[p].row), is_favorite)}, "none")
    /\ UNCHANGED <<app, peer, dbPosts, dbUsers, dbQuotes, history>>

delete_quote(p) ==
    /\ app = "quotes" /\ pc[p] = "idle"
    /\ \E quote_id \in QuoteIdArgs :
        LET req == Req(quote_id, Empty, Null) IN
        IF ~QuoteExists(quotes, quote_id)
        THEN Reply(p, "delete", req, HTTP_404_NOT_FOUND, 0, {}, "none")
        ELSE Goto(p, "delete_quote_execute", req)
    /\ UNCHANGED <<app, peer, dbPosts, dbUsers, dbQuotes, history>>

delete_quote_execute(p) ==
    /\ app = "quotes" /\ pc[p] = "delete_quote_execute"
    /\ quotes' = DeleteById(quotes, loc[p].id)
    /\ favorites' = FavoritesAfterQuoteDelete(favorites, loc[p].id)
    /\ deleted' = deleted \cup {loc[p].id}
    /\ fresh' = {r \in fresh : r.id # loc[p].id}
    /\ Reply(p, "delete", loc[p], HTTP_204_NO_CONTENT, loc[p].id, {}, "none")
    /\ UNCHANGED <<app, peer, dbPosts, dbUsers, quoteSeq, favSeq, issued>>

add_favorite(p) ==
    /\ app = "quotes" /\ pc[p] = "idle"
    /\ \E quote_id \in QuoteIdArgs, user_id \in FavoriteUserIds :
        LET req == Req(quote_id, [user_id |-> Some(user_id)], Null) IN
        IF ~QuoteExists(quotes, quote_id)
        THEN Reply(p, "add_favorite", req, HTTP_404_NOT_FOUND, 0, {}, "none")
        ELSE Goto(p, "add_favorite_insert", req)
    /\ UNCHANGED <<app, peer, dbPosts, dbUsers, dbQuotes, history>>

add_favorite_insert(p) ==
    /\ app = "quotes" /\ pc[p] = "add_favorite_insert"
    /\ LET quote_id == loc[p].id
           user_id == TheVal(loc[p].data.user_id)
       IN IF InsertFavoriteIntegrityError(favorites, quotes, quote_id, user_id)
          THEN /\ Reply(p, "add_favorite", loc[p], HTTP_200_OK, quote_id,
                        {[success |-> TRUE]}, "IntegrityError")
               /\ UNCHANGED <<favorites, favSeq>>
          ELSE LET row == [id |-> AutoIncrement(favorites, favSeq),
                           quote_id |-> quote_id, user_id |-> user_id]
               IN /\ row.id <= MaxFavId
                  /\ favorites' = favorites \cup {row}
                  /\ favSeq' = row.id
                  /\ Reply(p, "add_favorite", loc[p], HTTP_200_OK, quote_id,
                           {[success |-> TRUE]}, "none")
    /\ UNCHANGED <<app, peer, dbPosts, dbUsers, quotes, quoteSeq, history>>

remove_favorite(p) ==
    /\ app = "quotes" /\ pc[p] = "idle"
    /\ \E quote_id \in QuoteIdArgs, user_id \in FavoriteUserIds :
        LET left == DeleteFavorite(favorites, quote_id, user_id)
            rowcount == Cardinality(favorites \ left)
            success == rowcount > 0
        IN /\ favorites' = left
           /\ Reply(p, "remove_favorite",
                    [Req(quote_id, Empty, Some(user_id)) EXCEPT !.rowcount = rowcount],
                    HTTP_200_OK, quote_id, {[success |-> success]}, "none")
    /\ UNCHANGED <<app, peer, dbPosts, dbUsers, quotes, quoteSeq, favSeq, history>>

get_favorite_quotes(p) ==
    /\ app = "quotes" /\ pc[p] = "idle"
    /\ \E user_id \in FavoriteUserIds :
        Reply(p, "get_favorite_quotes", Req(0, Empty, Some(user_id)), HTTP_200_OK, 0,
              {WithFavorite(q, TRUE) : q \in FavoriteJoin(quotes, favorites, user_id)},
              "none")
    /\ UNCHANGED <<app, peer, dbPosts, dbUsers, dbQuotes, history>>

\* SELECT DISTINCT category FROM quotes WHERE category IS NOT NULL
DistinctCategoriesWithNull(rows) ==
    {IF q.category = Null THEN "None" ELSE TheVal(q.category) : q \in rows}
DistinctCategories(rows) ==
    {TheVal(q.category) : q \in {r \in rows : r.category # Null}}

get_categories(p) ==
    /\ app = "quotes" /\ pc[p] = "idle"
    /\ Reply(p, "get_categories", NoLoc, HTTP_200_OK, 0, DistinctCategories(quotes),
             "none")
    /\ UNCHANGED <<app, peer, dbPosts, dbUsers, dbQuotes, history>>

-----------------------------------------------------------------------------

\* the Python runtime reclaims a sqlite3.Connection object no handler
\* refers to any more, which closes it
CollectConnection ==
    /\ unclosed > 0
    /\ unclosed' = unclosed - 1
    /\ out' = NoResp
    /\ UNCHANGED <<app, peer, dbPosts, dbUsers, dbQuotes, pc, loc, history>>

-----------------------------------------------------------------------------
(* Standalone SQLite module (sqlite_database.py): functions called one after
   the other on one connection from create_connection *)

MaxPostId == 2

Usernames == {"alice", "bob"}
PostUserIdArgs == 1..MaxUserId
PostIdArgs == 1..MaxPostId

\* create_connection: conn.execute("PRAGMA foreign_keys = ON")
PragmaForeignKeysOff == FALSE
PragmaForeignKeys == TRUE

\* the value a function returns (value), with the function (op) and its
\* argument (id)
Returned(op, id, value) ==
    out' = [NoResp EXCEPT !.op = op, !.req = [NoLoc EXCEPT !.id = id],
                          !.body = value]

\* INSERT INTO users (username, email) VALUES (?, ?)
SqliteInsertedUser(rows, seq, username, email) ==
    [id |-> AutoIncrement(rows, seq), username |-> Some(username),
     email |-> Some(email), created_at |-> CurrentTimestamp(rows, seq)]

\* returns cursor.lastrowid, or None on sqlite3.IntegrityError (UNIQUE username)
insert_user ==
    /\ app = "sqlite"
    /\ \E username \in Usernames :
        IF UsernameTaken(users, Some(username))
        THEN /\ Returned("insert_user", 0, Null)
             /\ UNCHANGED dbUsers
        ELSE LET row == SqliteInsertedUser(users, userSeq, username, "a@x.io")
             IN /\ row.id <= MaxUserId
                /\ users' = users \cup {row}
                /\ userSeq' = row.id
                /\ Returned("insert_user", 0, Some(row.id))
    /\ UNCHANGED <<app, peer, dbQuotes, dbPosts, pc, loc, history, unclosed>>

\* INSERT INTO posts (user_id, title, content) VALUES (?, ?, ?)
InsertedPost(rows, seq, user_id) ==
    [id |-> AutoIncrement(rows, seq), user_id |-> user_id, title |-> "t",
     content |-> "c", published_at |-> CurrentTimestamp(rows, seq)]

\* FOREIGN KEY (user_id) REFERENCES users (id): the INSERT raises
\* sqlite3.IntegrityError when enforcement is on and no such user exists
InsertPostIntegrityError(user_rows, user_id) ==
    PragmaForeignKeys /\ SelectById(user_rows, user_id) = {}

\* returns cursor.lastrowid, or None on sqlite3.Error
insert_post ==
    /\ app = "sqlite"
    /\ \E user_id \in PostUserIdArgs :
        IF InsertPostIntegrityError(users, user_id)
        THEN /\ Returned("insert_post", user_id, Null)
             /\ UNCHANGED dbPosts
        ELSE LET row == InsertedPost(posts, postSeq, user_id)
             IN /\ row.id <= MaxPostId
                /\ posts' = posts \cup {row}
                /\ postSeq' = row.id
                /\ Returned("insert_post", user_id, Some(row.id))
    /\ UNCHANGED <<app, peer, dbUsers, dbQuotes, pc, loc, history, unclosed>>

\* ON DELETE CASCADE: the posts left after DELETE FROM users WHERE id = ?
PostsAfterUserDelete(user_rows, post_rows, user_id) ==
    IF PragmaForeignKeys /\ SelectById(user_rows, user_id) # {}
    THEN {r \in post_rows : r.user_id # user_id}
    ELSE post_rows

\* DELETE FROM users WHERE id = ?; commit; return cursor.rowcount > 0
delete_user ==
    /\ app = "sqlite"
    /\ \E user_id \in UserIdArgs :
        /\ users' = DeleteById(users, user_id)
        /\ posts' = PostsAfterUserDelete(users, posts, user_id)
        /\ Returned("delete_user", user_id, RowcountById(users, user_id) > 0)
    /\ UNCHANGED <<app, peer, userSeq, postSeq, dbQuotes, pc, loc, issued, fresh,
                   deleted, unclosed>>

\* DELETE FROM posts WHERE id = ?; commit; return cursor.rowcount > 0
delete_post ==
    /\ app = "sqlite"
    /\ \E post_id \in PostIdArgs :
        /\ posts' = DeleteById(posts, post_id)
        /\ deleted' = deleted \cup {r.id : r \in SelectById(posts, post_id)}
        /\ Returned("delete_post", post_id, RowcountById(posts, post_id) > 0)
    /\ UNCHANGED <<app, peer, dbUsers, postSeq, dbQuotes, pc, loc, issued, fresh,
                   unclosed>>

Init ==
    /\ app \in {"flask", "fastapi", "quotes"}
    /\ users = {} /\ userSeq = 0
    /\ quotes = {} /\ quoteSeq = 0
    /\ favorites = {} /\ favSeq = 0
    /\ pc = [p \in Procs |-> "idle"]
    /\ loc = [p \in Procs |-> NoLoc]
    /\ out = NoResp
    /\ issued = {} /\ deleted = {} /\ fresh = {}
    /\ unclosed = 0
    /\ peer = NoPeer
    /\ posts = {} /\ postSeq = 0

Next ==
    \/ \E p \in Procs : Flask_create_user(p)
    \/ \E p \in Procs : Flask_get_user(p)
    \/ \E p \in Procs : Flask_update_user(p)
    \/ \E p \in Procs : Flask_update_user_execute(p)
    \/ \E p \in Procs : Flask_delete_user(p)
    \/ \E p \in Procs : Flask_delete_user_execute(p)
    \/ \E p \in Procs : Fastapi_create_user(p)
    \/ \E p \in Procs : Fastapi_create_user_select(p)
    \/ \E p \in Procs : Fastapi_get_user(p)
    \/ \E p \in Procs : Fastapi_update_user(p)
    \/ \E p \in Procs : Fastapi_update_user_execute(p)
    \/ \E p \in Procs : Fastapi_update_user_select(p)
    \/ \E p \in Procs : Fastapi_delete_user(p)
    \/ \E p \in Procs : Fastapi_delete_user_execute(p)
    \/ \E p \in Procs : create_quote(p)
    \/ \E p \in Procs : create_quote_select(p)
    \/ \E p \in Procs : create_quotes_batch(p)
    \/ \E p \in Procs : get_quote(p)
    \/ \E p \in Procs : get_quote_favorite(p)
    \/ \E p \in Procs : get_all_quotes(p)
    \/ \E p \in Procs : get_all_quotes_favorites(p)
    \/ \E p \in Procs : update_quote(p)
    \/ \E p \in Procs : update_quote_execute(p)
    \/ \E p \in Procs : update_quote_select(p)
    \/ \E p \in Procs : update_quote_favorite(p)
    \/ \E p \in Procs : delete_quote(p)
    \/ \E p \in Procs : delete_quote_execute(p)
    \/ \E p \in Procs : add_favorite(p)
    \/ \E p \in Procs : add_favorite_insert(p)
    \/ \E p \in Procs : remove_favorite(p)
    \/ \E p \in Procs : get_favorite_quotes(p)
    \/ \E p \in Procs : get_categories(p)
    \/ CollectConnection

Spec == Init /\ [][Next]_vars

\* the standalone SQLite module on a fresh database, after create_tables
InitSqlite ==
    /\ app = "sqlite"
    /\ users = {} /\ userSeq = 0
    /\ quotes = {} /\ quoteSeq = 0
    /\ favorites = {} /\ favSeq = 0
    /\ posts = {} /\ postSeq = 0
    /\ pc = [p \in Procs |-> "idle"]
    /\ loc = [p \in Procs |-> NoLoc]
    /\ out = NoResp
    /\ issued = {} /\ deleted = {} /\ fresh = {}
    /\ unclosed = 0
    /\ peer = NoPeer

NextSqlite ==
    \/ insert_user
    \/ insert_post
    \/ delete_user
    \/ delete_post

SpecSqlite == InitSqlite /\ [][NextSqlite]_vars

-----------------------------------------------------------------------------
(* Properties of the services *)

\* the table of the service's resource
Resources == IF app = "quotes" THEN quotes ELSE users

\* a Create request that meets Create's input contract: required fields
\* present and not null, age absent, null or within 0..120
WellFormedCreateUser(data) ==
    /\ {"username", "email"} \subseteq DOMAIN data
    /\ data.username # Null /\ data.email # Null
    /\ "age" \in DOMAIN data => data.age = Null \/ TheVal(data.age) \in 0..120

\* the step just taken executed the INSERT of a user Create for username u
\* (the request got past validation): it either answered at once or went on
\* to re-read the row
CreateUserInsertStep(u) ==
    \E p \in Procs :
        /\ pc[p] = "idle"
        /\ \/ /\ pc' = pc
              /\ out'.op = "create" /\ app # "quotes"
              /\ WellFormedCreateUser(out'.req.data)
              /\ out'.req.data.username = u
           \/ /\ pc'[p] = "fastapi_create_select"
              /\ loc'[p].data.username = u

\* C1: a Create whose username is already in the users table fails with
\* Conflict (409) and leaves the users table as it was.
C1_DuplicateUsernameConflict ==
    [][\A r \in users :
          CreateUserInsertStep(r.username) =>
              /\ out'.status = HTTP_409_CONFLICT
              /\ users' = users]_vars

C1_Witness ==
    /\ out.op = "create" /\ out.status = HTTP_409_CONFLICT
    /\ WellFormedCreateUser(out.req.data)
    /\ \E r \in users : r.username = out.req.data.username

\* C2: after any sequence of Create and Delete operations, the id a
\* successful Create returns is a positive integer that no earlier Create
\* returned, deleted rows included.
C2_CreatedIdIsNew ==
    [][(out'.op = "create" /\ out'.status = HTTP_201_CREATED) =>
          (out'.id > 0 /\ out'.id \notin issued)]_vars

C2_Witness ==
    /\ out.op = "create" /\ out.status = HTTP_201_CREATED
    /\ deleted # {} /\ out.id \notin deleted
    /\ \A d \in deleted : d < out.id

\* C3: no two rows of users share a username; and a Create that succeeds
\* leaves its own row as the only holder of its username, so of two Creates
\* for one username running concurrently at most one succeeds.
C3_UsernameUnique ==
    /\ \A r1, r2 \in users : r1.username = r2.username => r1.id = r2.id
    /\ (app # "quotes" /\ out.op = "create" /\ out.status = HTTP_201_CREATED) =>
          {r.id : r \in {x \in users : x.username = out.req.data.username}} = {out.id}

\* two Creates for one username overlap: one has inserted and not yet
\* answered, the other has just been refused
C3_Witness ==
    /\ out.op = "create" /\ out.status = HTTP_409_CONFLICT
    /\ \E p \in Procs :
          /\ pc[p] = "fastapi_create_select"
          /\ loc[p].data.username = out.req.data.username
          /\ SelectById(users, loc[p].id) # {}

\* a record without its created_at
WithoutCreatedAt(r) == [k \in DOMAIN r \ {"created_at"} |-> r[k]]

\* a record without its created_at and the per-request is_favorite flag
Persisted(r) == [k \in DOMAIN r \ {"created_at", "is_favorite"} |-> r[k]]

RecognizedFields(data) ==
    DOMAIN data \cap (IF app = "quotes" THEN {"text", "author", "source", "category"}
                      ELSE {"email", "age"})

UpdateLabels == {"flask_update", "fastapi_update", "fastapi_update_select",
                 "update_quote_execute", "update_quote_select",
                 "update_quote_favorite"}

\* C5: an Update that supplies no recognized field fails with BadRequest
\* (400) whether or not the id exists, changes nothing in the store, and
\* never gets as far as the existence check.
C5_EmptyUpdateBadRequest ==
    [][/\ (out'.op = "update" /\ RecognizedFields(out'.req.data) = {}) =>
            /\ out'.status = HTTP_400_BAD_REQUEST
            /\ users' = users /\ quotes' = quotes /\ favorites' = favorites
       /\ \A p \in Procs :
            (pc[p] = "idle" /\ pc'[p] \in UpdateLabels) =>
                RecognizedFields(loc'[p].data) # {}]_vars

\* BadRequest although the id does not exist, for a payload that is not empty
C5_Witness ==
    /\ out.op = "update" /\ out.status = HTTP_400_BAD_REQUEST
    /\ out.req.data # Empty
    /\ SelectById(Resources, out.req.id) = {}

\* C6: once a Delete of an id has succeeded, every GetById of that id issued
\* afterwards answers NotFound (404), whatever was created in between.
C6_DeletedStaysNotFound ==
    [][/\ (out'.op = "get" /\ pc' = pc /\ out'.req.id \in deleted) =>
            out'.status = HTTP_404_NOT_FOUND
       /\ \A p \in Procs :
            (pc[p] = "idle" /\ pc'[p] = "get_quote_favorite") =>
                loc'[p].id \notin deleted]_vars

C6_Witness ==
    /\ out.op = "get" /\ out.status = HTTP_404_NOT_FOUND
    /\ out.req.id \in deleted
    /\ \E r \in Resources : r.id > out.req.id

\* C7: when a Delete of a quote has succeeded, the favorites table holds no
\* row whose quote_id is that quote.
C7_DeleteQuoteCascades ==
    (app = "quotes" /\ out.op = "delete" /\ out.status = HTTP_204_NO_CONTENT) =>
        \A f \in favorites : f.quote_id # out.id

\* C8: ListFavorites(user_id) never lists a quote that has been deleted,
\* also when the user's Favorite row for it is still stored.
C8_ListFavoritesExcludesDeleted ==
    out.op = "get_favorite_quotes" =>
        /\ out.status = HTTP_200_OK
        /\ \A q \in out.body : q.id \notin deleted

\* the user had favorited a quote that was then deleted, and lists favorites
C8_Witness ==
    /\ out.op = "get_favorite_quotes"
    /\ \E f \in favorites :
          /\ f.user_id = TheVal(out.req.uid)
          /\ f.quote_id \in deleted
          /\ \A q \in out.body : q.id # f.quote_id

\* C9: a SetFavorite that found its quote reports success and leaves exactly
\* one Favorite row for its (quote_id, user_id) pair, on the first call and
\* on every repetition.
C9_SetFavoriteIdempotent ==
    (out.op = "add_favorite" /\ out.status # HTTP_404_NOT_FOUND) =>
        /\ out.status = HTTP_200_OK
        /\ out.body = {[success |-> TRUE]}
        /\ Cardinality(SelectFavorite(favorites, out.req.id,
                                      TheVal(out.req.data.user_id))) = 1

\* the repeated call: the pair was there already, the duplicate insert was
\* refused by the store and the handler still reports success
C9_Witness ==
    /\ out.op = "add_favorite" /\ out.status = HTTP_200_OK
    /\ out.exc = "IntegrityError"
    /\ out.body = {[success |-> TRUE]}
    /\ Cardinality(SelectFavorite(favorites, out.req.id,
                                  TheVal(out.req.data.user_id))) = 1

\* the step just taken began a SetFavorite for quote_id: it answered at once
\* or went on to the INSERT
AddFavoriteBegins(quote_id) ==
    \E p \in Procs :
        /\ pc[p] = "idle"
        /\ \/ pc' = pc /\ out'.op = "add_favorite" /\ out'.req.id = quote_id
           \/ pc'[p] = "add_favorite_insert" /\ loc'[p].id = quote_id

\* C10: a SetFavorite for a quote_id that is not in the quotes table fails
\* with NotFound (404) and inserts no Favorite row.
C10_SetFavoriteUnknownQuote ==
    [][\A quote_id \in QuoteIdArgs :
          (SelectById(quotes, quote_id) = {} /\ AddFavoriteBegins(quote_id)) =>
              /\ out'.status = HTTP_404_NOT_FOUND
              /\ favorites' = favorites]_vars

\* refused for a quote that was deleted while the favorites table is not empty
C10_Witness ==
    /\ out.op = "add_favorite" /\ out.status = HTTP_404_NOT_FOUND
    /\ SelectById(quotes, out.req.id) = {}
    /\ out.req.id \in deleted
    /\ favorites # {}

\* the Favorite rows of a (quote_id, user_id) pair
PairRows(favs, quote_id, user_id) ==
    {f \in favs : f.quote_id = quote_id /\ f.user_id = user_id}

\* C11: ClearFavorite(quote_id, user_id) never fails, whether or not the
\* pair or the quote exists; it answers success = true exactly when a
\* Favorite row of the pair existed, removes that row and no other, and
\* leaves no row of the pair behind.
C11_ClearFavorite ==
    [][out'.op = "remove_favorite" =>
          LET quote_id == out'.req.id
              user_id == TheVal(out'.req.uid)
          IN /\ out'.status = HTTP_200_OK
             /\ out'.body = {[success |-> PairRows(favorites, quote_id, user_id) # {}]}
             /\ favorites' = favorites \ PairRows(favorites, quote_id, user_id)
             /\ PairRows(favorites', quote_id, user_id) = {}
             /\ quotes' = quotes]_vars

\* a row was removed for a quote that no longer exists, and another user's
\* favorite of the same quote is still stored
C11_Witness ==
    /\ out.op = "remove_favorite" /\ out.body = {[success |-> TRUE]}
    /\ SelectById(quotes, out.req.id) = {}
    /\ PairRows(favorites, out.req.id, TheVal(out.req.uid)) = {}
    /\ \E f \in favorites : f.quote_id = out.req.id

\* an Update at its mutation statement, past its existence check
UpdateExecuteLabels == {"flask_update", "fastapi_update", "update_quote_execute"}

\* C12: Update's existence check and its mutation are separate statements;
\* when a concurrent Delete of the same id commits between the two, the
\* mutation statement matches no row, changes nothing, and the Update
\* still does not answer NotFound: no Update that got past its existence
\* check ever answers 404.
C12_UpdateDeleteRace ==
    [][\A p \in Procs :
          /\ (pc[p] \in UpdateExecuteLabels /\ pc'[p] # pc[p]
                  /\ SelectById(Resources, loc[p].id) = {}) =>
                /\ loc[p].id \in deleted
                /\ users' = users /\ quotes' = quotes
                /\ IF app = "flask"
                   THEN out'.status = HTTP_200_OK /\ out'.req.rowcount = 0
                   ELSE pc'[p] \in UpdateLabels /\ loc'[p].rowcount = 0
          /\ (pc[p] \in UpdateLabels /\ pc'[p] = "idle") =>
                out'.status # HTTP_404_NOT_FOUND]_vars

\* the interleaving: the Update's mutation statement has just run and
\* matched no row, because the row was deleted after the existence check
C12_Witness ==
    \/ /\ app = "flask"
       /\ out.op = "update" /\ out.status = HTTP_200_OK
       /\ out.req.rowcount = 0 /\ out.req.id \in deleted
    \/ /\ app # "flask"
       /\ \E p \in Procs :
             /\ pc[p] \in {"fastapi_update_select", "update_quote_select"}
             /\ loc[p].rowcount = 0 /\ loc[p].id \in deleted

\* the store connections that are open: one per handler between its
\* get_db_connection() and its answer, and those left unclosed
OpenConnections == Cardinality({p \in Procs : pc[p] # "idle"}) + unclosed

\* C13: every handler closes the connection it opened on every exit path,
\* so no connection is open whenever no request is in progress.
C13_ConnectionsReleased ==
    (\A p \in Procs : pc[p] = "idle") => OpenConnections = 0

\* the step is worker p executing the mutation statement of an Update
\* without an exception
UpdateMutates(p) ==
    /\ pc[p] \in UpdateExecuteLabels /\ pc'[p] # pc[p]
    /\ out'.status # HTTP_500_INTERNAL_SERVER_ERROR

\* C14: the mutation of an Update sets the supplied recognized fields of the
\* row with the given id to the supplied values and nothing else: the row's
\* other columns (id, created_at, a user's username, unsupplied fields),
\* every other row, the favorites and the id sequences stay as they were.
C14_UpdateFrame ==
    [][\A p \in Procs : UpdateMutates(p) =>
          LET id == loc[p].id
              data == loc[p].data
              supplied == RecognizedFields(data)
          IN /\ \A r \in Resources :
                  IF r.id # id THEN r \in Resources'
                  ELSE \E u \in Resources' :
                          \A k \in DOMAIN r :
                              u[k] = IF k \in supplied THEN data[k] ELSE r[k]
             /\ Cardinality(Resources') = Cardinality(Resources)
             /\ favorites' = favorites
             /\ <<userSeq, quoteSeq, favSeq>>' = <<userSeq, quoteSeq, favSeq>>]_vars

\* an Update has just changed one of two stored rows, its request carrying a
\* field the service does not update next to the one it does
C14_Witness ==
    \E p \in Procs :
        /\ pc[p] \in {"fastapi_update_select", "update_quote_select"}
        /\ loc[p].rowcount = 1
        /\ DOMAIN loc[p].data \ RecognizedFields(loc[p].data) # {}
        /\ \E r \in Resources :
              /\ r.id = loc[p].id
              /\ \A k \in RecognizedFields(loc[p].data) : r[k] = loc[p].data[k]
        /\ app = "fastapi" => Cardinality(users) = 2

\* C15: a successful Update of a user answers with the full record of the
\* id as re-read from the users table after the mutation, in the Flask and
\* in the FastAPI service: the body is the row stored for the id when the
\* handler read it back.
C15_UpdateReturnsPersisted ==
    (app \in {"flask", "fastapi"} /\ out.op = "update" /\ out.status = HTTP_200_OK) =>
        \E r \in users : r.id = out.req.id /\ out.body = {r}

DeleteExecuteLabels == {"flask_delete", "fastapi_delete", "delete_quote_execute"}

\* an Update body that meets Update's input contract: an email, when
\* supplied, is an address or null, an age is null or within 0..120
WellFormedUpdate(data) ==
    app # "quotes" =>
        /\ "age" \in DOMAIN data => data.age = Null \/ TheVal(data.age) \in 0..120
        /\ "email" \in DOMAIN data =>
              data.email = Null \/ TheVal(data.email) \in {"a@x.io", "b@x.io"}

\* the step just taken began request op (Update or Delete) for id with body
\* data in worker p: it answered at once or went on to its mutation statement
Begins(p, op, id, data) ==
    /\ pc[p] = "idle"
    /\ \/ /\ pc' = pc /\ out'.op = op
          /\ out'.req.id = id /\ out'.req.data = data
       \/ /\ pc'[p] \in (IF op = "update" THEN UpdateExecuteLabels
                          ELSE DeleteExecuteLabels)
          /\ loc'[p].id = id /\ loc'[p].data = data

UpdateBodies == IF app = "quotes" THEN UpdateQuotePayloads ELSE UpdateUserPayloads

\* C16: an Update with at least one recognized field, or a Delete, of an id
\* that is not in the store answers NotFound (404) and changes nothing; a
\* Delete of an id that is in the store goes on to its DELETE statement,
\* which removes the row of that id from the table and no other row.
C16_NotFoundAndDelete ==
    [][\A p \in Procs :
          /\ \A id \in 1..Max(MaxUserId, MaxQuoteId) :
                /\ \A data \in UpdateBodies :
                      (/\ Begins(p, "update", id, data)
                       /\ SelectById(Resources, id) = {}
                       /\ RecognizedFields(data) # {} /\ WellFormedUpdate(data)) =>
                          /\ pc' = pc /\ out'.status = HTTP_404_NOT_FOUND
                          /\ UNCHANGED <<dbUsers, dbQuotes>>
                /\ (Begins(p, "delete", id, Empty) /\ SelectById(Resources, id) = {}) =>
                          /\ pc' = pc /\ out'.status = HTTP_404_NOT_FOUND
                          /\ UNCHANGED <<dbUsers, dbQuotes>>
                /\ (Begins(p, "delete", id, Empty) /\ SelectById(Resources, id) # {}) =>
                          pc'[p] \in DeleteExecuteLabels
          /\ (pc[p] \in DeleteExecuteLabels /\ pc'[p] = "idle") =>
                /\ out'.status \in {HTTP_200_OK, HTTP_204_NO_CONTENT}
                /\ Resources' = {r \in Resources : r.id # loc[p].id}
                /\ <<userSeq, quoteSeq, favSeq>>' = <<userSeq, quoteSeq, favSeq>>]_vars

\* an Update naming a recognized field is refused for an id that a Delete
\* removed earlier, while the row of another id is still stored
C16_Witness ==
    /\ out.op = "update" /\ out.status = HTTP_404_NOT_FOUND
    /\ RecognizedFields(out.req.data) # {}
    /\ out.req.id \in deleted
    /\ \E r \in Resources : r.id # out.req.id

\* C17: a Create of a user answers Conflict (409) only when its username
\* is already stored; any other failure of the INSERT, such as a required
\* field that is present but null, is answered with Internal (500).
C17_ConflictOnlyOnDuplicate ==
    (app # "quotes" /\ out.op = "create" /\ out.exc = "IntegrityError") =>
        IF \E r \in users : r.username = out.req.data.username
        THEN out.status = HTTP_409_CONFLICT
        ELSE out.status = HTTP_500_INTERNAL_SERVER_ERROR

\* the fields a Create must carry
RequiredFields == IF app = "quotes" THEN {"text", "author"} ELSE {"username", "email"}

CreateSelectLabels == {"fastapi_create_select", "create_quote_select"}

\* C18: a Create whose body lacks a required field (username or email of a
\* user, text or author of a quote) is refused as invalid (400 by Flask,
\* 422 by FastAPI) before the handler opens a connection or runs a
\* statement, and the store stays as it was.
C18_MissingRequiredField ==
    [][/\ (out'.op = "create" /\ ~(RequiredFields \subseteq DOMAIN out'.req.data)) =>
            /\ out'.status = (IF app = "flask" THEN HTTP_400_BAD_REQUEST
                                ELSE HTTP_422_UNPROCESSABLE_ENTITY)
            /\ out'.exc \in {"none", "ValidationError"}
            /\ unclosed' = unclosed
            /\ UNCHANGED <<dbUsers, dbQuotes>>
       /\ \A p \in Procs :
            (pc[p] = "idle" /\ pc'[p] \in CreateSelectLabels) =>
                RequiredFields \subseteq DOMAIN loc'[p].data]_vars

\* refused for a missing field while the table already holds a row
C18_Witness ==
    /\ out.op = "create"
    /\ out.status \in {HTTP_400_BAD_REQUEST, HTTP_422_UNPROCESSABLE_ENTITY}
    /\ ~(RequiredFields \subseteq DOMAIN out.req.data)
    /\ Resources # {}

\* C19: every stored user has an age that is null or an integer within
\* 0..120, in both user services.
C19_AgeInRange ==
    \A r \in users : r.age = Null \/ TheVal(r.age) \in 0..120

\* a listed quote without the flag the handler adds to it
WithoutFlag(b) == [k \in DOMAIN b \ {"is_favorite"} |-> b[k]]

C21_IsFavoriteFlag ==
    /\ \A q \in quotes : "is_favorite" \notin DOMAIN q
    /\ (app = "quotes" /\ out.op \in {"get", "get_all", "update"}
           /\ out.status = HTTP_200_OK) =>
          \A b \in out.body :
              b.is_favorite =
                  (/\ out.req.uid # Null
                   /\ PairRows(favorites, b.id, TheVal(out.req.uid)) # {})

\* the category values of the requests
Categories == {"c1", "c2"}

-----------------------------------------------------------------------------
(* The two user services side by side: each request is served by the Flask  *)
(* service on its users.db and then, with the same payload, by the FastAPI  *)
(* service on its own users.db; requests come one after the other.          *)

\* the request a handler in flight is serving
OpOfLabel(label) ==
    CASE label \in {"fastapi_create_select"} -> "create"
      [] label \in {"flask_update", "fastapi_update", "fastapi_update_select"} -> "update"
      [] label \in {"flask_delete", "fastapi_delete"} -> "delete"
      [] OTHER -> "none"

\* the step of worker p takes up the request the Flask service has served
SameRequest(p) ==
    IF pc'[p] = "idle"
    THEN /\ out'.op = peer.op /\ out'.req.data = peer.data
         /\ peer.op # "create" => out'.req.id = peer.id
    ELSE /\ OpOfLabel(pc'[p]) = peer.op /\ loc'[p].data = peer.data
         /\ peer.op # "create" => loc'[p].id = peer.id

\* the service whose turn it is may take a step: it is in the middle of a
\* request, or no answer is waiting to be handed on
FlaskTurn == app = "flask" /\ (pc[1] # "idle" \/ out = NoResp)
FastapiTurn == app = "fastapi" /\ (pc[1] # "idle" \/ out = NoResp)

\* Flask has answered: the request goes to the FastAPI service
HandOver ==
    /\ app = "flask" /\ pc[1] = "idle" /\ out.op # "none"
    /\ app' = "fastapi"
    /\ peer' = [users |-> users, userSeq |-> userSeq, op |-> out.op,
                id |-> out.req.id, data |-> out.req.data,
                flask |-> out.status, fastapi |-> 0]
    /\ users' = peer.users /\ userSeq' = peer.userSeq
    /\ out' = NoResp
    /\ UNCHANGED <<dbQuotes, dbPosts, pc, loc, history, unclosed>>

\* FastAPI has answered: both answers are in, the next request goes to Flask
HandBack ==
    /\ app = "fastapi" /\ pc[1] = "idle" /\ out.op # "none"
    /\ app' = "flask"
    /\ peer' = [NoPeer EXCEPT !.users = users, !.userSeq = userSeq,
                              !.flask = peer.flask, !.fastapi = out.status]
    /\ users' = peer.users /\ userSeq' = peer.userSeq
    /\ out' = NoResp
    /\ UNCHANGED <<dbQuotes, dbPosts, pc, loc, history, unclosed>>

InitEquiv == Init /\ app = "flask"

NextEquiv ==
    \/ FlaskTurn /\ Flask_create_user(1)
    \/ FlaskTurn /\ Flask_get_user(1)
    \/ FlaskTurn /\ Flask_update_user(1)
    \/ FlaskTurn /\ Flask_update_user_execute(1)
    \/ FlaskTurn /\ Flask_delete_user(1)
    \/ FlaskTurn /\ Flask_delete_user_execute(1)
    \/ HandOver
    \/ FastapiTurn /\ Fastapi_create_user(1) /\ SameRequest(1)
    \/ FastapiTurn /\ Fastapi_create_user_select(1)
    \/ FastapiTurn /\ Fastapi_get_user(1) /\ SameRequest(1)
    \/ FastapiTurn /\ Fastapi_update_user(1) /\ SameRequest(1)
    \/ FastapiTurn /\ Fastapi_update_user_execute(1)
    \/ FastapiTurn /\ Fastapi_update_user_select(1)
    \/ FastapiTurn /\ Fastapi_delete_user(1) /\ SameRequest(1)
    \/ FastapiTurn /\ Fastapi_delete_user_execute(1)
    \/ HandBack
    \/ out = NoResp /\ CollectConnection

SpecEquiv == InitEquiv /\ [][NextEquiv]_vars

\* the outcome classes of the contract
OutcomeClass(status) ==
    CASE status \in {HTTP_200_OK, HTTP_201_CREATED, HTTP_204_NO_CONTENT} -> "Success"
      [] status \in {HTTP_400_BAD_REQUEST, HTTP_422_UNPROCESSABLE_ENTITY} -> "BadRequest"
      [] status = HTTP_404_NOT_FOUND -> "NotFound"
      [] status = HTTP_409_CONFLICT -> "Conflict"
      [] OTHER -> "Internal"

\* both services have answered the last request (users is Flask's table,
\* peer.users FastAPI's)
BothAnswered == app = "flask" /\ pc[1] = "idle" /\ out = NoResp /\ peer.fastapi # 0

\* C23: served the same sequence of Create, GetById, Update and Delete
\* requests, the Flask and the FastAPI service answer every request with
\* the same outcome class and hold the same users table afterwards.
C23_SameContract ==
    BothAnswered =>
        /\ OutcomeClass(peer.flask) = OutcomeClass(peer.fastapi)
        /\ users = peer.users


-----------------------------------------------------------------------------
(* All-or-nothing *)

UpdateSelectLabels == {"fastapi_update_select", "update_quote_select"}

\* the request worker p is serving has committed a change of the store: the
\* INSERT of a Create, or an UPDATE that matched a row
Wrote(p) ==
    \/ pc[p] \in CreateSelectLabels
    \/ pc[p] \in UpdateSelectLabels /\ loc[p].rowcount > 0

Failure(resp) == resp.op # "none" /\ resp.status >= HTTP_400_BAD_REQUEST

\* C24: every operation is all-or-nothing: the step that answers a request with
\* a failure changes nothing in the store, and the request it answers has
\* committed no change in an earlier step; a batch Create that fails persists
\* none of its quotes
C24_AllOrNothing ==
    [][Failure(out') =>
          /\ dbUsers' = dbUsers /\ dbQuotes' = dbQuotes
          /\ \A p \in Procs : pc'[p] # pc[p] => ~Wrote(p)]_vars


-----------------------------------------------------------------------------
(* Standalone SQLite module: delete_user *)

\* C25: delete_user(conn, user_id) on a connection from create_connection
\* leaves no post of that user (and keeps every other post), and returns True
\* exactly when a row of users was removed
C25_DeleteUserCascades ==
    [][out'.op = "delete_user" =>
          /\ posts' = {r \in posts : r.user_id # out'.req.id}
          /\ out'.body = (users' # users)
          /\ users' = {r \in users : r.id # out'.req.id}]_vars

\* the only user ever inserted has just been deleted, posts had been inserted for
\* them and none removed by delete_post
C25_Witness ==
    /\ out.op = "delete_user" /\ out.body = TRUE
    /\ userSeq = 1 /\ postSeq > 0 /\ deleted = {}
    /\ posts = {}


-----------------------------------------------------------------------------
(* Favorites under concurrent requests *)

\* C26: under every interleaving of SetFavorite requests there is at most one
\* Favorite row per (quote_id, user_id) pair, and every SetFavorite that passed
\* its existence check reports success, the one that lost the race for the
\* pair included
C26_ConcurrentSetFavorite ==
    [][/\ \A quote_id \in QuoteIdArgs, user_id \in FavoriteUserIds :
             Cardinality(PairRows(favorites', quote_id, user_id)) <= 1
       /\ \A p \in Procs :
             (pc[p] = "add_favorite_insert" /\ pc'[p] = "idle") =>
                 /\ out'.status = HTTP_200_OK
                 /\ out'.body = {[success |-> TRUE]}]_vars

\* two SetFavorite requests for one pair overlap: one has just reported success
\* and its row is stored, the other passed its check before and has yet to
\* insert
C26_Witness ==
    \E p \in Procs :
        /\ pc[p] = "add_favorite_insert"
        /\ out.op = "add_favorite" /\ out.status = HTTP_200_OK
        /\ out.req.id = loc[p].id /\ out.req.data = loc[p].data
        /\ PairRows(favorites, loc[p].id, TheVal(loc[p].data.user_id)) # {}


\* C27: under every interleaving of SetFavorite, ClearFavorite and quote Delete
\* requests every Favorite row references a quote of the quotes table; a
\* SetFavorite whose existence check ran before a concurrent Delete committed
\* leaves no row for the deleted quote
C27_FavoritesReferenceQuotes ==
    \A f \in favorites : \E q \in quotes : q.id = f.quote_id


\* the user identifier of the SetFavorite or ClearFavorite a response answers
FavoriteRequestUser(resp) ==
    IF resp.op = "add_favorite" THEN TheVal(resp.req.data.user_id)
    ELSE TheVal(resp.req.uid)

\* C28: a SetFavorite or ClearFavorite issued with user identifier A changes
\* neither what ListFavorites(B) reads nor what the is_favorite lookups of
\* ListAll, GetById and Update read for any other user identifier B
C28_UsersDoNotInterfere ==
    [][out'.op \in {"add_favorite", "remove_favorite"} =>
          \A B \in FavoriteUserIds \ {FavoriteRequestUser(out')} :
              /\ FavoriteJoin(quotes', favorites', B) = FavoriteJoin(quotes, favorites, B)
              /\ FavoriteQuoteIds(favorites', B) = FavoriteQuoteIds(favorites, B)
              /\ \A quote_id \in QuoteIdArgs :
                    SelectFavorite(favorites', quote_id, B)
                        = SelectFavorite(favorites, quote_id, B)]_vars

\* a ClearFavorite of one user has removed their row for a quote that is a
\* favorite of another user as well, whose row is still stored
C28_Witness ==
    /\ out.op = "remove_favorite" /\ out.body = {[success |-> TRUE]}
    /\ \E f \in favorites :
          f.quote_id = out.req.id /\ f.user_id # TheVal(out.req.uid)


-----------------------------------------------------------------------------
(* Updates: null for a required column, and concurrent updates *)

\* the columns an Update can set that are declared NOT NULL
RequiredUpdatable == IF app = "quotes" THEN {"text", "author"} ELSE {"email"}

NullForRequired(data) ==
    \E k \in DOMAIN data \cap RequiredUpdatable : data[k] = Null

StoredRows == IF app = "quotes" THEN quotes ELSE users

\* C29: an Update that supplies null for a required column (email of a user;
\* text or author of a quote) is not refused by the empty-field check (400);
\* when its UPDATE statement runs on an id that is in the store it fails, the
\* request is answered 500 and the store is left unchanged
C29_NullForRequiredColumn ==
    [][\A p \in Procs :
          /\ (/\ pc' = pc /\ out'.op = "update"
              /\ NullForRequired(out'.req.data)) =>
                 out'.status # HTTP_400_BAD_REQUEST
          /\ (/\ pc[p] \in UpdateExecuteLabels /\ pc'[p] # pc[p]
              /\ NullForRequired(loc[p].data)
              /\ SelectById(StoredRows, loc[p].id) # {}) =>
                 /\ out'.op = "update"
                 /\ out'.status = HTTP_500_INTERNAL_SERVER_ERROR
                 /\ dbUsers' = dbUsers /\ dbQuotes' = dbQuotes]_vars

\* such an Update has been answered 500 and the row it named is stored, with
\* its required columns set
C29_Witness ==
    /\ out.op = "update" /\ out.status = HTTP_500_INTERNAL_SERVER_ERROR
    /\ out.exc = "IntegrityError"
    /\ NullForRequired(out.req.data)
    /\ \E r \in StoredRows :
          r.id = out.req.id /\ \A k \in RequiredUpdatable : r[k] # Null


\* the columns an Update body sets
SuppliedColumns(data) ==
    DOMAIN data \cap (IF app = "quotes" THEN {"text", "author", "source", "category"}
                      ELSE {"email", "age"})

Carries(r, data) == \A k \in SuppliedColumns(data) : r[k] = data[k]

\* bodies of the Updates of id whose UPDATE statement has run and that another
\* worker is still serving, or has answered in the step before
UpdatesCommitted(q, id) ==
    {loc[p].data : p \in {w \in Procs \ {q} :
                       pc[w] \in UpdateSelectLabels /\ loc[w].id = id}}
    \cup (IF out.op = "update" /\ out.status = HTTP_200_OK /\ out.req.id = id
          THEN {out.req.data} ELSE {})

\* C30: no lost update on disjoint fields: when the UPDATE statement of one
\* Update runs on a row that carries the values another, overlapping Update of
\* the same id has written to other columns, the row carries the new values of
\* both afterwards
C30_NoLostUpdate ==
    [][\A q \in Procs :
          (/\ pc[q] \in UpdateExecuteLabels /\ pc'[q] # pc[q]
           /\ out'.status # HTTP_500_INTERNAL_SERVER_ERROR) =>
              \A r \in SelectById(StoredRows, loc[q].id),
                 data \in UpdatesCommitted(q, loc[q].id) :
                  (/\ SuppliedColumns(data) \cap SuppliedColumns(loc[q].data) = {}
                   /\ Carries(r, data)) =>
                      \A n \in SelectById(StoredRows', loc[q].id) :
                          Carries(n, data) /\ Carries(n, loc[q].data)]_vars

\* two Updates of one user overlap, one setting the email and the other
\* clearing the age: both UPDATE statements have run, neither request has been
\* answered, and the row carries both new values
C30_Witness ==
    /\ app = "fastapi"
    /\ \A p \in Procs : pc[p] = "fastapi_update_select" /\ loc[p].rowcount > 0
    /\ loc[1].id = loc[2].id
    /\ SuppliedColumns(loc[1].data) = {"email"}
    /\ SuppliedColumns(loc[2].data) = {"age"}
    /\ \E r \in users :
          /\ r.id = loc[1].id /\ r.username = Some("alice")
          /\ r.email = Some("b@x.io") /\ r.age = Null

=============================================================================
